---- MODULE Spec2Model ----
(***************************************************************************)
(* Model of app.py: the leads table of the SQLite database, the Flask      *)
(* handlers ingest_leads, send_outreach, track_engagement, send_followup   *)
(* and the scheduler job automated_followup_check with its helper          *)
(* send_followup_internal.                                                 *)
(*                                                                         *)
(* Every handler opens its own connection.  The sqlite3 module runs a      *)
(* SELECT outside any transaction and opens one only in front of an        *)
(* INSERT or UPDATE, so a handler that reads and then writes is two        *)
(* database steps: other connections may commit between them.  SpecConc    *)
(* models the handlers with that granularity; SpecSeq runs each handler    *)
(* to completion in one step; SpecIngest is ingestion alone, over every    *)
(* kind of posted element; SpecLive is SpecConc with fairness; SpecMain    *)
(* runs the jobs of the two schedulers of the started program.             *)
(***************************************************************************)
EXTENDS Integers, Sequences, FiniteSets, TLC

\* ---------------------------------------------------------------- bounds
MaxRows == 2        \* rows the table may hold
MaxBatch == 2       \* elements of one ingest request
MaxNow == 120       \* last value of the clock
ClockStep == 60     \* seconds by which the clock advances in one step
NumProcs == 2       \* concurrent request handlers
MaxFollowups == 2   \* follow-up e-mails per lead after which no more are sent
MaxStoreErrors == 1 \* UPDATEs of one lead the store refuses to the job

\* ---------------------------------------------------------------- values
Null == "NULL"          \* SQL NULL / JSON null in a text column
NoDate == -1            \* SQL NULL in sent_date
Unbindable == "LIST"    \* a JSON value sqlite3 cannot bind (list, object)
Absent == "ABSENT"      \* placeholder for a key a dict does not have

Ids == {"1", "2"}
Emails == {"a@x.com", "b@x.com"}
Statuses == {"pending", "sent", "opened", "followup_sent", "replied", "bounced"}
valid_actions == {"opened", "replied", "bounced"}
Required == {"id", "email", "company_name", "contact_name"}
followup_threshold_seconds == 60

Procs == 1..NumProcs

\* The schedulers that run the job.  `python app.py` starts one and then calls
\* app.run(debug=True): the reloader of the debug server runs the script a
\* second time in a child process, and the script starts a scheduler there
\* too while the first one keeps running in the parent.
Schedulers == {"parent", "child"}

\* ------------------------------------------------------------- the table
\* One row of the leads table (the columns no handler ever tests are
\* represented by company_name and contact_name).
Row(id, email, status, sent_date) ==
  [id |-> id, email |-> email, company_name |-> "Acme", contact_name |-> "Bo",
   status |-> status, sent_date |-> sent_date]

NoRow == [id |-> Absent, email |-> Absent, company_name |-> Absent,
          contact_name |-> Absent, status |-> Absent, sent_date |-> NoDate]

\* PRIMARY KEY on id and UNIQUE on email: a non-INTEGER primary key accepts
\* NULL, and NULLs never collide with each other.
Conflicts(rows, r) ==
  \E i \in 1..Len(rows) :
     \/ (r.id # Null /\ rows[i].id = r.id)
     \/ (r.email # Null /\ rows[i].email = r.email)

\* SELECT ... FROM leads WHERE id = ?  followed by fetchone(); a NULL id
\* matches no row.
SelectById(rows, id) ==
  IF id # Null /\ \E i \in 1..Len(rows) : rows[i].id = id
    THEN rows[CHOOSE i \in 1..Len(rows) :
                 rows[i].id = id /\ \A j \in 1..(i-1) : rows[j].id # id]
    ELSE NoRow

\* An UPDATE without its WHERE clause.
UpdateStatusDateAll(rows, id, st, d) ==
  [i \in 1..Len(rows) |-> [rows[i] EXCEPT !.status = st, !.sent_date = d]]

\* UPDATE leads SET status = ?, sent_date = ? WHERE id = ?
UpdateStatusDate(rows, id, st, d) ==
  [i \in 1..Len(rows) |->
     IF id # Null /\ rows[i].id = id
       THEN [rows[i] EXCEPT !.status = st, !.sent_date = d]
                        ELSE rows[i]]

\* An UPDATE that also clears sent_date.
UpdateStatusClearDate(rows, id, st) ==
  [i \in 1..Len(rows) |->
     IF id # Null /\ rows[i].id = id
       THEN [rows[i] EXCEPT !.status = st, !.sent_date = NoDate] ELSE rows[i]]

\* UPDATE leads SET status = ? WHERE id = ?
UpdateStatus(rows, id, st) ==
  [i \in 1..Len(rows) |->
     IF id # Null /\ rows[i].id = id
       THEN [rows[i] EXCEPT !.status = st] ELSE rows[i]]

\* ------------------------------------------------------------ ingest_leads
\* An element of the posted JSON array: a dict (the keys it has and their
\* values) or something that is not a dict.
Dict(keys, id, email, status) ==
  [kind |-> "dict", keys |-> keys, id |-> id, email |-> email, status |-> status]
NonDict == [kind |-> "other", keys |-> {}, id |-> Absent, email |-> Absent,
            status |-> Absent]

\* lead.get(k, default)
Get(lead, k, default) ==
  IF k \in lead.keys
    THEN (CASE k = "id" -> lead.id
            [] k = "email" -> lead.email
            [] k = "status" -> lead.status
            [] k = "company_name" -> "Acme"
            [] k = "contact_name" -> "Bo")
    ELSE default

\* A validation that asks for id and email only.
HasRequiredLoose(lead) == {"id", "email"} \subseteq lead.keys

\* all(k in lead for k in ['id', 'email', 'company_name', 'contact_name'])
HasRequired(lead) == Required \subseteq lead.keys

\* The body of the for loop, from element k on, inside one transaction.
\* A non-dict element raises inside the except clause (lead.get), which
\* leaves the loop and the with block: the connection rolls back.
RECURSIVE IngestLoop(_, _, _, _, _, _)
IngestLoop(rows, leads_data, k, inserted_count, skipped_count, errors) ==
  IF k > Len(leads_data)
    THEN [crashed |-> FALSE, rows |-> rows, inserted |-> inserted_count,
          skipped |-> skipped_count, errors |-> errors]
    ELSE LET lead == leads_data[k] IN
      IF lead.kind # "dict"
        THEN [crashed |-> TRUE, rows |-> rows, inserted |-> inserted_count,
              skipped |-> skipped_count, errors |-> errors]
      ELSE IF ~HasRequired(lead)
        THEN IngestLoop(rows, leads_data, k + 1, inserted_count, skipped_count + 1,
                        Append(errors, "missing essential fields"))
      ELSE IF Unbindable \in {Get(lead, "id", Null), Get(lead, "email", Null),
                              Get(lead, "status", "pending")}
        THEN IngestLoop(rows, leads_data, k + 1, inserted_count, skipped_count + 1,
                        Append(errors, "database error"))
      ELSE LET r == [Row(Get(lead, "id", Null), Get(lead, "email", Null),
                         Get(lead, "status", "pending"), NoDate)
                       EXCEPT !.company_name = Get(lead, "company_name", Null),
                              !.contact_name = Get(lead, "contact_name", Null)] IN
        IF Conflicts(rows, r)
          THEN IngestLoop(rows, leads_data, k + 1, inserted_count,
                          skipped_count + 1, Append(errors, "already exists"))
          ELSE IngestLoop(Append(rows, r), leads_data, k + 1,
                          inserted_count + 1, skipped_count, errors)

\* Elements a posted array is made of: well-formed records (JSON null for
\* id included), records that name their own status, a record without
\* contact_name, a record whose id cannot be bound, and a non-record.
IngestIds == Ids \cup {Null}
MissingField == Dict(Required \ {"contact_name"}, "1", "a@x.com", Absent)
BadValue == Dict(Required, Unbindable, "a@x.com", Absent)
WithStatus == {Dict(Required \cup {"status"}, "1", "a@x.com", "sent"),
               Dict(Required \cup {"status"}, "2", "b@x.com", "junk")}
Elements ==
  {Dict(Required, i, e, Absent) : i \in IngestIds, e \in Emails}
  \cup WithStatus \cup {MissingField, BadValue, NonDict}
\* The elements the handlers' specifications ingest: one of each kind.
SeqElements ==
  {Dict(Required, "1", "a@x.com", Absent), Dict(Required, "2", "b@x.com", Absent),
   Dict(Required, "2", "a@x.com", Absent),
   Dict(Required \cup {"status"}, "1", "a@x.com", "sent"),
   MissingField, NonDict}
BatchesOf(elements) == UNION {[1..n -> elements] : n \in 0..MaxBatch}
Batches == BatchesOf(Elements)
\* A request body: a JSON array of elements, or JSON that is not an array.
Body(is_list, items) == [is_list |-> is_list, items |-> items]
NotAList == Body(FALSE, <<>>)
\* Handlers of different leads never read or write each other's row, so the
\* interleaved specification ingests one well-formed record and races the
\* handlers on it (requests for the other id find no lead).
ConcBodies == {Body(TRUE, <<Dict(Required, "1", "a@x.com", Absent)>>)}
Bodies == {Body(TRUE, b) : b \in Batches} \cup {NotAList}
\* Where the handlers run one after the other a batch of n elements stores
\* what n batches of one element store, so those specifications post the
\* empty array, every array of one element, and a body that is no array.
SeqBodies ==
  {Body(TRUE, <<e>>) : e \in SeqElements} \cup {Body(TRUE, <<>>), NotAList}

\* ------------------------------------------------------------------ state
VARIABLES
  leads,         \* the leads table: rows in rowid order
  now,           \* datetime.datetime.now(), in seconds
  resp,          \* the response of the handler that returned last
  req,           \* per request handler: the row it read, while its UPDATE is pending
  sched,         \* per scheduler, its job: position, leads_to_check, row read
  followup_log,  \* per lead id: follow-up e-mails simulated so far
  swept          \* lead ids a job run followed up with no handler in between

vars == <<leads, now, resp, req, sched, followup_log, swept>>

Resp(op, id, code, msg, status) ==
  [op |-> op, id |-> id, code |-> code, msg |-> msg, status |-> status,
   inserted |-> 0, skipped |-> 0, errors |-> <<>>, rows |-> <<>>]

\* A handler with no UPDATE pending.  One with an UPDATE pending holds the
\* lead id, the status its SELECT returned and the status it will write.
Idle == [op |-> "idle", id |-> Absent, new_status |-> Absent,
         current_status |-> Absent]
\* The job between runs.  While it runs: the rows its SELECT returned, the
\* index of the for loop, the row send_followup_internal read, the ids it
\* has followed up and the ids among leads_to_check that a request handler
\* has read or written since the run began.
SchedIdle == [pc |-> "idle", leads_to_check |-> <<>>, i |-> 0, lead |-> NoRow,
              followed |-> {}, touched |-> {}]

Init ==
  /\ leads = <<>>
  /\ now = 0
  /\ resp = Resp("none", Absent, 0, Absent, Absent)
  /\ req = [p \in Procs |-> Idle]
  /\ sched = [s \in Schedulers |-> SchedIdle]
  /\ followup_log = [i \in Ids |-> 0]
  /\ swept = {}

\* The clock advances.
ClockTick ==
  /\ now + ClockStep <= MaxNow
  /\ now' = now + ClockStep
  /\ UNCHANGED <<leads, resp, req, sched, followup_log, swept>>

\* POST /api/leads/ingest with request.json = leads_data: one transaction,
\* committed after the loop or rolled back by the exception.
ingest_leads(leads_data) ==
  /\ IF ~leads_data.is_list
       THEN /\ leads' = leads
            /\ resp' = Resp("ingest", Absent, 400, "expected array", Absent)
       ELSE LET r == IngestLoop(leads, leads_data.items, 1, 0, 0, <<>>) IN
            /\ Len(r.rows) <= MaxRows
            /\ IF r.crashed
                 THEN /\ leads' = leads
                      /\ resp' = Resp("ingest", Absent, 500, "exception", Absent)
                 ELSE /\ leads' = r.rows
                      /\ resp' = [Resp("ingest", Absent, 200, "complete", Absent)
                                    EXCEPT !.inserted = r.inserted,
                                           !.skipped = r.skipped,
                                           !.errors = r.errors]
  /\ UNCHANGED <<now, req, sched, followup_log, swept>>

\* GET /api/leads: every row of the table.
get_leads ==
  /\ resp' = [Resp("list", Absent, 200, "leads", Absent) EXCEPT !.rows = leads]
  /\ UNCHANGED <<leads, now, req, sched, followup_log, swept>>

\* --------------------------------------------------- the handlers' decisions
\* A chain that also lets an opened lead bounce.
TrackNewStatusLoose(current_status, action) ==
  IF action = "opened" /\ current_status = "sent" THEN "opened"
  ELSE IF action = "replied"
          /\ current_status \in {"sent", "opened", "pending", "followup_sent"}
    THEN "replied"
  ELSE IF action = "bounced"
          /\ current_status \in {"sent", "opened", "pending", "followup_sent"}
    THEN "bounced"
  ELSE current_status

\* A chain in which a bounce also applies to a lead that replied.
TrackNewStatusBounceAfterReply(current_status, action) ==
  IF action = "opened" /\ current_status = "sent" THEN "opened"
  ELSE IF action = "replied"
          /\ current_status \in {"sent", "opened", "pending", "followup_sent"}
    THEN "replied"
  ELSE IF action = "bounced"
          /\ current_status \in {"sent", "pending", "followup_sent", "replied"}
    THEN "bounced"
  ELSE current_status

\* track_engagement's if/elif chain: the new status.
TrackNewStatus(current_status, action) ==
  IF action = "opened" /\ current_status = "sent" THEN "opened"
  ELSE IF action = "replied"
          /\ current_status \in {"sent", "opened", "pending", "followup_sent"}
    THEN "replied"
  ELSE IF action = "bounced"
          /\ current_status \in {"sent", "pending", "followup_sent"}
    THEN "bounced"
  ELSE current_status

\* A guard that sends again to a lead already sent to.
SendLegalAgain(lead) == lead.status \in {"pending", "sent"}

\* send_outreach sends only when the status is pending.
SendLegal(lead) == lead.status = "pending"

\* send_followup: status in ['sent', 'opened'].
FollowupLegal(lead) == lead.status \in {"sent", "opened"}

\* A test that lets the job follow up only leads that did not open.
InternalFollowupLegalSentOnly(lead) == lead.status = "sent"

\* send_followup_internal's own copy of the test.
InternalFollowupLegal(lead) == lead.status \in {"sent", "opened"}

LogFollowup(lead_id) ==
  IF lead_id \in Ids
    THEN [followup_log EXCEPT ![lead_id] = @ + 1]
    ELSE followup_log

\* ------------------------------------------- handlers run to completion
\* POST /api/outreach/send/<lead_id>
send_outreach(lead_id) ==
  LET lead == SelectById(leads, lead_id) IN
  /\ IF lead = NoRow
       THEN /\ resp' = Resp("send", lead_id, 404, "not found", Absent)
            /\ leads' = leads
       ELSE IF ~SendLegal(lead)
       THEN /\ resp' = Resp("send", lead_id, 200, "already", lead.status)
            /\ leads' = leads
       ELSE /\ resp' = Resp("send", lead_id, 200, "simulated", "sent")
            /\ leads' = UpdateStatusDate(leads, lead_id, "sent", now)
  /\ UNCHANGED <<now, req, sched, followup_log, swept>>

\* POST /api/outreach/track/<lead_id>/<action>
track_engagement(lead_id, action) ==
  /\ IF action \notin valid_actions
       THEN /\ resp' = Resp("track", lead_id, 400, "invalid action", Absent)
            /\ leads' = leads
       ELSE LET lead == SelectById(leads, lead_id)
                new_status == TrackNewStatus(lead.status, action) IN
         IF lead = NoRow
           THEN /\ resp' = Resp("track", lead_id, 404, "not found", Absent)
                /\ leads' = leads
           ELSE /\ resp' = Resp("track", lead_id, 200, action, new_status)
                /\ leads' = IF new_status # lead.status
                              THEN UpdateStatus(leads, lead_id, new_status)
                              ELSE leads
  /\ UNCHANGED <<now, req, sched, followup_log, swept>>

\* POST /api/outreach/followup/<lead_id>
send_followup(lead_id) ==
  LET lead == SelectById(leads, lead_id) IN
  /\ IF lead = NoRow
       THEN /\ resp' = Resp("followup", lead_id, 404, "not found", Absent)
            /\ leads' = leads
            /\ UNCHANGED followup_log
       ELSE IF ~FollowupLegal(lead)
       THEN /\ resp' = Resp("followup", lead_id, 400, "cannot", lead.status)
            /\ leads' = leads
            /\ UNCHANGED followup_log
       ELSE /\ resp' = Resp("followup", lead_id, 200, "simulated", "followup_sent")
            /\ leads' = UpdateStatusDate(leads, lead_id, "followup_sent", now)
            /\ followup_log' = LogFollowup(lead_id)
  /\ UNCHANGED <<now, req, sched, swept>>

\* ------------------------------------------------------- the scheduler job
\* SELECT * FROM leads WHERE status IN ('sent', 'opened')
\*                       AND sent_date IS NOT NULL
ScanLeads(rows) ==
  SelectSeq(rows, LAMBDA r : r.status \in {"sent", "opened"} /\ r.sent_date # NoDate)

\* A test that forgets the threshold.
DueAtOnce(lead, t) == t - lead.sent_date >= 0

\* time_since_last_send.total_seconds() >= followup_threshold_seconds
Due(lead, t) == t - lead.sent_date >= followup_threshold_seconds

\* send_followup_internal(lead_id, conn, cursor) at time t: the table it
\* leaves and whether it simulated the e-mail.  store_error: the UPDATE
\* raises sqlite3.Error, after the e-mail was printed.
send_followup_internal(rows, lead_id, t, store_error) ==
  LET lead == SelectById(rows, lead_id) IN
  IF lead = NoRow
    THEN [rows |-> rows, emailed |-> FALSE]
  ELSE IF ~InternalFollowupLegal(lead)
    THEN [rows |-> rows, emailed |-> FALSE]
  ELSE IF store_error
    THEN [rows |-> rows, emailed |-> TRUE]
  ELSE [rows |-> UpdateStatusDate(rows, lead_id, "followup_sent", t),
        emailed |-> TRUE]

\* A loop whose try encloses the for: the first store error ends the run.
RECURSIVE CheckLoopAbort(_, _, _, _)
CheckLoopAbort(rows, leads_to_check, log, store_errors) ==
  IF leads_to_check = <<>>
    THEN [rows |-> rows, log |-> log]
    ELSE LET lead == Head(leads_to_check)
             r == send_followup_internal(rows, lead.id, now,
                                         lead.id \in store_errors) IN
      IF Due(lead, now)
        THEN IF lead.id \in store_errors /\ r.emailed
               THEN [rows |-> rows,
                     log |-> [log EXCEPT ![lead.id] = @ + 1]]
               ELSE CheckLoopAbort(r.rows, Tail(leads_to_check),
                       IF r.emailed /\ lead.id \in Ids
                         THEN [log EXCEPT ![lead.id] = @ + 1] ELSE log,
                       store_errors)
        ELSE CheckLoopAbort(rows, Tail(leads_to_check), log, store_errors)

\* The for loop of automated_followup_check over leads_to_check, each due
\* lead handed to send_followup_internal inside its own try; an error is
\* printed and the loop goes on.
RECURSIVE CheckLoop(_, _, _, _)
CheckLoop(rows, leads_to_check, log, store_errors) ==
  IF leads_to_check = <<>>
    THEN [rows |-> rows, log |-> log]
    ELSE LET lead == Head(leads_to_check)
             r == send_followup_internal(rows, lead.id, now,
                                         lead.id \in store_errors) IN
      IF Due(lead, now)
        THEN CheckLoop(r.rows, Tail(leads_to_check),
                       IF r.emailed /\ lead.id \in Ids
                         THEN [log EXCEPT ![lead.id] = @ + 1] ELSE log,
                       store_errors)
        ELSE CheckLoop(rows, Tail(leads_to_check), log, store_errors)

\* The ids the scan finds due at time t.
DueIds(rows, t) ==
  {lead_id \in Ids :
     \E k \in 1..Len(rows) :
        /\ rows[k].id = lead_id
        /\ rows[k].status \in {"sent", "opened"}
        /\ rows[k].sent_date # NoDate
        /\ Due(rows[k], t)}

\* One run of the job, to completion.  store_errors: the leads whose UPDATE
\* the store refuses in this run.
automated_followup_check(store_errors) ==
  LET r == CheckLoop(leads, ScanLeads(leads), followup_log, store_errors) IN
  /\ UNCHANGED <<now, resp, req, sched>>
  /\ store_errors \subseteq DueIds(leads, now)
  /\ \A lead_id \in store_errors : followup_log[lead_id] < MaxStoreErrors
  /\ \A lead_id \in Ids : r.log[lead_id] <= MaxFollowups
  /\ leads' = r.rows
  /\ followup_log' = r.log
  /\ swept' = swept \cup {lead_id \in Ids :
                             SelectById(r.rows, lead_id)
                               # SelectById(leads, lead_id)}

\* ---------------------------------------------------------- SpecSeq
Actions == valid_actions \cup {"clicked"}

NextSeq ==
  \/ ClockTick
  \/ \E leads_data \in SeqBodies : ingest_leads(leads_data)
  \/ get_leads
  \/ \E lead_id \in Ids : send_outreach(lead_id)
  \/ \E lead_id \in Ids, action \in Actions : track_engagement(lead_id, action)
  \/ \E lead_id \in Ids : send_followup(lead_id)
  \/ \E store_errors \in SUBSET Ids : automated_followup_check(store_errors)

SpecSeq == Init /\ [][NextSeq]_vars

\* ---------------------------------------------------------- SpecConc
\* The handlers as their database steps: the SELECT, then (when the handler
\* goes on to write) the UPDATE with its commit.  Between the two any other
\* connection may commit.  This specification follows the table and the
\* simulated e-mails; what each handler answers is followed in SpecSeq.
\* A request is served by the first free handler.
FirstFree(p) == req[p] = Idle /\ \A q \in Procs : q < p => req[q] # Idle

Pending(op, lead_id, new_status, lead) ==
  [op |-> op, id |-> lead_id, new_status |-> new_status,
   current_status |-> lead.status]

\* A request handler reads or writes lead_id while the job runs.
Touch(lead_id) ==
  [s \in Schedulers |->
     IF \E k \in 1..Len(sched[s].leads_to_check) :
           sched[s].leads_to_check[k].id = lead_id
       THEN [sched[s] EXCEPT !.touched = @ \cup {lead_id}]
       ELSE sched[s]]

\* send_outreach up to its decision.
send_outreach_select(p, lead_id) ==
  LET lead == SelectById(leads, lead_id) IN
  /\ FirstFree(p)
  /\ IF lead = NoRow
       THEN req' = req
       ELSE IF ~SendLegal(lead)
       THEN req' = req
       ELSE req' = [req EXCEPT ![p] = Pending("send", lead_id, "sent", lead)]
  /\ sched' = Touch(lead_id)
  /\ UNCHANGED <<leads, now, resp, followup_log, swept>>

\* send_outreach from the simulated send to the commit.
send_outreach_update(p) ==
  /\ req[p].op = "send"
  /\ leads' = UpdateStatusDate(leads, req[p].id, "sent", now)
  /\ req' = [req EXCEPT ![p] = Idle]
  /\ sched' = Touch(req[p].id)
  /\ UNCHANGED <<now, resp, followup_log, swept>>

\* track_engagement up to "if new_status != current_status".
track_engagement_select(p, lead_id, action) ==
  /\ FirstFree(p)
  /\ IF action \notin valid_actions
       THEN req' = req
            /\ sched' = sched
       ELSE LET lead == SelectById(leads, lead_id)
                new_status == TrackNewStatus(lead.status, action) IN
            /\ IF lead = NoRow
                 THEN req' = req
                 ELSE IF new_status = lead.status
                 THEN req' = req
                 ELSE req' = [req EXCEPT
                                   ![p] = Pending(action, lead_id, new_status, lead)]
            /\ sched' = Touch(lead_id)
  /\ UNCHANGED <<leads, now, resp, followup_log, swept>>

\* track_engagement's UPDATE and commit.
track_engagement_update(p) ==
  /\ req[p].op \in valid_actions
  /\ leads' = UpdateStatus(leads, req[p].id, req[p].new_status)
  /\ req' = [req EXCEPT ![p] = Idle]
  /\ sched' = Touch(req[p].id)
  /\ UNCHANGED <<now, resp, followup_log, swept>>

\* send_followup up to its decision.
send_followup_select(p, lead_id) ==
  LET lead == SelectById(leads, lead_id) IN
  /\ FirstFree(p)
  /\ IF lead = NoRow
       THEN req' = req
       ELSE IF ~FollowupLegal(lead)
       THEN req' = req
       ELSE req' = [req EXCEPT
                         ![p] = Pending("followup", lead_id, "followup_sent", lead)]
  /\ sched' = Touch(lead_id)
  /\ UNCHANGED <<leads, now, resp, followup_log, swept>>

\* send_followup from the simulated send to the commit.
send_followup_update(p) ==
  /\ req[p].op = "followup"
  /\ followup_log[req[p].id] < MaxFollowups
  /\ leads' = UpdateStatusDate(leads, req[p].id, "followup_sent", now)
  /\ followup_log' = LogFollowup(req[p].id)
  /\ req' = [req EXCEPT ![p] = Idle]
  /\ sched' = Touch(req[p].id)
  /\ UNCHANGED <<now, resp, swept>>

\* automated_followup_check in scheduler s: the SELECT of the leads to
\* check.  A scheduler does not start its job while its previous run is
\* still going.
job_select(s) ==
  /\ sched[s].pc = "idle"
  /\ sched' = [sched EXCEPT
                 ![s] = [SchedIdle EXCEPT !.pc = "loop",
                                          !.leads_to_check = ScanLeads(leads),
                                          !.i = 1]]
  /\ UNCHANGED <<leads, now, resp, req, followup_log, swept>>

\* One turn of the for loop up to send_followup_internal's decision, or the
\* end of the run.
job_next(s) ==
  /\ sched[s].pc = "loop"
  /\ IF sched[s].i > Len(sched[s].leads_to_check)
       THEN /\ sched' = [sched EXCEPT ![s] = SchedIdle]
            /\ swept' = swept \cup (sched[s].followed \ sched[s].touched)
       ELSE LET lead == sched[s].leads_to_check[sched[s].i]
                cur == SelectById(leads, lead.id) IN
            /\ IF Due(lead, now) /\ cur # NoRow /\ InternalFollowupLegal(cur)
                 THEN sched' = [sched EXCEPT ![s].pc = "update", ![s].lead = cur]
                 ELSE sched' = [sched EXCEPT ![s].i = @ + 1]
            /\ swept' = swept
  /\ UNCHANGED <<leads, now, resp, req, followup_log>>

\* send_followup_internal from the simulated send to the commit.
job_update(s) ==
  /\ sched[s].pc = "update"
  /\ sched[s].lead.id \in Ids => followup_log[sched[s].lead.id] < MaxFollowups
  /\ leads' = UpdateStatusDate(leads, sched[s].lead.id, "followup_sent", now)
  /\ followup_log' = LogFollowup(sched[s].lead.id)
  /\ sched' = [sched EXCEPT ![s].pc = "loop", ![s].i = @ + 1,
                            ![s].lead = NoRow,
                            ![s].followed = @ \cup {sched[s].lead.id}]
  /\ UNCHANGED <<now, resp, req, swept>>

\* SpecConc follows the job of one of the schedulers.
OneScheduler == "child"

NextConc ==
  \/ ClockTick
  \/ \E leads_data \in ConcBodies : ingest_leads(leads_data)
  \/ \E p \in Procs, lead_id \in Ids : send_outreach_select(p, lead_id)
  \/ \E p \in Procs : send_outreach_update(p)
  \/ \E p \in Procs, lead_id \in Ids, action \in Actions :
        track_engagement_select(p, lead_id, action)
  \/ \E p \in Procs : track_engagement_update(p)
  \/ \E p \in Procs, lead_id \in Ids : send_followup_select(p, lead_id)
  \/ \E p \in Procs : send_followup_update(p)
  \/ job_select(OneScheduler)
  \/ job_next(OneScheduler)
  \/ job_update(OneScheduler)

SpecConc == Init /\ [][NextConc]_vars

\* ---------------------------------------------------------- SpecLive
\* SpecConc where time advances, the scheduler keeps firing its job and
\* lets a run go on, and a handler that has read goes on to its UPDATE.
\* Requests themselves may or may not arrive.
SpecLive ==
  /\ SpecConc
  /\ WF_vars(ClockTick)
  /\ WF_vars(job_select(OneScheduler))
  /\ WF_vars(job_next(OneScheduler))
  /\ WF_vars(job_update(OneScheduler))
  /\ \A p \in Procs : WF_vars(\/ send_outreach_update(p)
                               \/ track_engagement_update(p)
                               \/ send_followup_update(p))

\* ---------------------------------------------------------- SpecMain
\* The started program: the jobs of both schedulers as their database
\* steps, against one table, with request handlers that complete between
\* those steps.
NextMain ==
  \/ ClockTick
  \/ \E leads_data \in ConcBodies : ingest_leads(leads_data)
  \/ \E lead_id \in Ids : send_outreach(lead_id)
  \/ \E lead_id \in Ids, action \in Actions : track_engagement(lead_id, action)
  \/ \E lead_id \in Ids : send_followup(lead_id)
  \/ \E s \in Schedulers : job_select(s)
  \/ \E s \in Schedulers : job_next(s)
  \/ \E s \in Schedulers : job_update(s)

SpecMain == Init /\ [][NextMain]_vars

\* ---------------------------------------------------------- SpecIngest
\* Ingestion alone, over every kind of posted element.
NextIngest == \E leads_data \in Bodies : ingest_leads(leads_data)

SpecIngest == Init /\ [][NextIngest]_vars

\* ======================================================== properties
StatusOf(rows, lead_id) == SelectById(rows, lead_id).status
DateOf(rows, lead_id) == SelectById(rows, lead_id).sent_date
Exists(rows, lead_id) == SelectById(rows, lead_id) # NoRow

\* The transition table of the lead state machine, keyed by (current, event).
TransitionTable(current, event) ==
  CASE event = "send" /\ current = "pending" -> "sent"
    [] event = "opened" /\ current = "sent" -> "opened"
    [] event = "followup" /\ current \in {"sent", "opened"} -> "followup_sent"
    [] event = "replied"
       /\ current \in {"sent", "opened", "pending", "followup_sent"} -> "replied"
    [] event = "bounced"
       /\ current \in {"sent", "pending", "followup_sent"} -> "bounced"
    [] OTHER -> current

\* C1: for every lead whose status is one of the six states, the status
\* stored after send_outreach, track_engagement or send_followup has run on
\* it is the next state the transition table gives for (status, event).
C1_TransitionTable ==
  [][\A lead_id \in Ids :
       (Exists(leads, lead_id) /\ StatusOf(leads, lead_id) \in Statuses) =>
         /\ send_outreach(lead_id) =>
              StatusOf(leads', lead_id)
                = TransitionTable(StatusOf(leads, lead_id), "send")
         /\ send_followup(lead_id) =>
              StatusOf(leads', lead_id)
                = TransitionTable(StatusOf(leads, lead_id), "followup")
         /\ \A action \in valid_actions :
              track_engagement(lead_id, action) =>
                StatusOf(leads', lead_id)
                  = TransitionTable(StatusOf(leads, lead_id), action)]_vars

\* A lead that was sent to and then bounced, as track_engagement reports it.
C1_Witness ==
  \E lead_id \in Ids :
     /\ resp = Resp("track", lead_id, 200, "bounced", "bounced")
     /\ StatusOf(leads, lead_id) = "bounced"
     /\ DateOf(leads, lead_id) # NoDate

\* C6: send on a pending lead stores status sent and the time of the call;
\* a second send that follows the first immediately finds the lead sent and
\* changes nothing of the record, its sent_date included.
C6_SendIdempotent ==
  [][\A lead_id \in Ids :
       /\ (StatusOf(leads, lead_id) = "pending" /\ send_outreach(lead_id)) =>
            /\ StatusOf(leads', lead_id) = "sent"
            /\ DateOf(leads', lead_id) = now
       /\ (/\ resp = Resp("send", lead_id, 200, "simulated", "sent")
           /\ StatusOf(leads, lead_id) = "sent"
           /\ send_outreach(lead_id)) =>
            /\ leads' = leads
            /\ resp'.code = 200
            /\ resp'.status = "sent"]_vars

\* The second send has answered, later than the first, and the record still
\* carries the first call's sent_date.
C6_Witness ==
  \E lead_id \in Ids :
     /\ resp = Resp("send", lead_id, 200, "already", "sent")
     /\ StatusOf(leads, lead_id) = "sent"
     /\ DateOf(leads, lead_id) # NoDate
     /\ DateOf(leads, lead_id) < now

\* C2: whenever a handler or the scheduler job writes a new status for a
\* lead, the status stored at that moment is the status the writer read for
\* its legality check.
C2_AtomicTransition ==
  [][/\ \A p \in Procs :
          (\/ send_outreach_update(p)
           \/ track_engagement_update(p)
           \/ send_followup_update(p)) =>
            StatusOf(leads, req[p].id) = req[p].current_status
     /\ \A s \in Schedulers :
          job_update(s) =>
            StatusOf(leads, sched[s].lead.id) = sched[s].lead.status]_vars

\* C3: a follow-up (request or scheduler job) that read sent or opened and
\* races with track(lead, 'replied') ends as one of the two serial orders
\* does, and both end in replied: where replied is already stored when the
\* follow-up writes, replied is still stored afterwards.
C3_RepliedNotLost ==
  [][/\ \A p \in Procs :
          (/\ send_followup_update(p)
           /\ req[p].current_status \in {"sent", "opened"}
           /\ StatusOf(leads, req[p].id) = "replied") =>
            StatusOf(leads', req[p].id) = "replied"
     /\ \A s \in Schedulers :
          (/\ job_update(s)
           /\ sched[s].lead.status \in {"sent", "opened"}
           /\ StatusOf(leads, sched[s].lead.id) = "replied") =>
            StatusOf(leads', sched[s].lead.id) = "replied"]_vars

\* C4: no lead is sent more than one follow-up (simulated e-mail together
\* with the write of followup_sent), whoever sends it.
C4_NoDuplicateFollowup == \A lead_id \in Ids : followup_log[lead_id] <= 1

\* C5: a lead that is sent or opened and due is in the job's result exactly
\* once; if no request handler reads or writes it while the job runs, the
\* job goes on to follow it up, and when the run is over the lead is
\* followup_sent with a later sent_date; no later run finds that lead due.
C5_SweptOnce ==
  [][\A s \in Schedulers :
       /\ job_select(s) =>
            \A lead_id \in Ids :
               (/\ StatusOf(leads, lead_id) \in {"sent", "opened"}
                /\ DateOf(leads, lead_id) # NoDate) =>
                 Cardinality({k \in 1..Len(sched'[s].leads_to_check) :
                                sched'[s].leads_to_check[k].id = lead_id}) = 1
       /\ (job_next(s) /\ sched[s].i <= Len(sched[s].leads_to_check)) =>
            LET lead == sched[s].leads_to_check[sched[s].i] IN
              /\ (Due(lead, now) /\ lead.id \notin sched[s].touched) =>
                   (sched'[s].pc = "update" /\ sched'[s].lead.id = lead.id)
              /\ sched'[s].pc = "update" => lead.id \notin swept
       /\ job_update(s) =>
            /\ StatusOf(leads', sched[s].lead.id) = "followup_sent"
            /\ DateOf(leads', sched[s].lead.id) = now
       /\ (job_next(s) /\ sched[s].i > Len(sched[s].leads_to_check)) =>
            \A k \in 1..Len(sched[s].leads_to_check) :
               LET lead == sched[s].leads_to_check[k] IN
                 (lead.id \in sched[s].followed \ sched[s].touched) =>
                   /\ StatusOf(leads, lead.id) = "followup_sent"
                   /\ DateOf(leads, lead.id) > lead.sent_date]_vars

\* C7: a record has a sent_date exactly if its status has been sent, opened
\* or followup_sent at some point since it was created.  (Stated where
\* ingestion is the only operation: the one status a record has had is the
\* status it was created with.)
C7_SentDateIffContacted ==
  \A k \in 1..Len(leads) :
     (leads[k].sent_date # NoDate)
       <=> (leads[k].status \in {"sent", "opened", "followup_sent"})

\* C8: a record that ingestion has just created is pending with no
\* sent_date, so every stored status is one of the six states.
C8_StartsPending ==
  \A k \in 1..Len(leads) :
     /\ leads[k].status = "pending"
     /\ leads[k].sent_date = NoDate
     /\ leads[k].status \in Statuses

\* C9: no two stored records share an id and no two share an email.
C9_UniqueIdAndEmail ==
  \A j, k \in 1..Len(leads) :
     j # k => (leads[j].id # leads[k].id /\ leads[j].email # leads[k].email)

\* A posted element that has the required fields, with values that can
\* be stored; and whether the table holds it or a record with its id or
\* its email.
IsValid(lead) ==
  lead.kind = "dict" /\ HasRequired(lead) /\ lead.id # Unbindable
InTable(rows, lead) ==
  \E k \in 1..Len(rows) :
     \/ rows[k].id = lead.id /\ rows[k].email = lead.email
     \/ rows[k].id = lead.id /\ lead.id # Null
     \/ rows[k].email = lead.email /\ lead.email # Null

\* C10: whatever the elements of a posted array are, the request answers
\* 200 with inserted + skipped equal to the length of the array, and every
\* element that has the required fields is in the table afterwards, as
\* itself or as the record whose id or email it repeats.
C10_BatchNeverFails ==
  [][\A leads_data \in Bodies :
       (leads_data.is_list /\ ingest_leads(leads_data)) =>
          /\ resp'.code = 200
          /\ resp'.inserted + resp'.skipped = Len(leads_data.items)
          /\ \A k \in 1..Len(leads_data.items) :
                IsValid(leads_data.items[k]) => InTable(leads', leads_data.items[k])
    ]_vars

C12_RejectionIsSuccess ==
  [][\A lead_id \in Ids :
       Exists(leads, lead_id) =>
         /\ (StatusOf(leads, lead_id) # "pending" /\ send_outreach(lead_id)) =>
              /\ resp'.code = 200
              /\ resp'.status = StatusOf(leads, lead_id)
              /\ leads' = leads
         /\ (StatusOf(leads, lead_id) \notin {"sent", "opened"}
             /\ send_followup(lead_id)) =>
              /\ resp'.code = 200
              /\ resp'.status = StatusOf(leads, lead_id)
              /\ leads' = leads
         /\ \A action \in valid_actions :
              (/\ TransitionTable(StatusOf(leads, lead_id), action)
                    = StatusOf(leads, lead_id)
               /\ track_engagement(lead_id, action)) =>
                /\ resp'.code = 200
                /\ resp'.status = StatusOf(leads, lead_id)
                /\ leads' = leads]_vars

\* The handler that ran in this step answered as op for lead_id.  Every
\* handler puts both into its response, so in front of a handler's action
\* the test changes nothing; it spares evaluating the handler on the steps
\* of the others.
Answered(op, lead_id) == resp'.op = op /\ resp'.id = lead_id

\* C13: track_engagement never changes a sent_date and changes the table
\* only where it changes a status; a sent_date changes only in a send or a
\* follow-up, to the time of that send or follow-up.
C13_TrackKeepsSentDate ==
  [][/\ \A lead_id \in Ids, action \in Actions :
          (Answered("track", lead_id) /\ track_engagement(lead_id, action)) =>
            /\ Len(leads') = Len(leads)
            /\ \A k \in 1..Len(leads) :
                  /\ leads'[k].sent_date = leads[k].sent_date
                  /\ leads'[k].status = leads[k].status => leads'[k] = leads[k]
     /\ \A lead_id \in Ids :
          (leads' # leads
           /\ Exists(leads, lead_id) /\ Exists(leads', lead_id)
           /\ DateOf(leads', lead_id) # DateOf(leads, lead_id)) =>
             /\ DateOf(leads', lead_id) = now
             /\ StatusOf(leads', lead_id) \in {"sent", "followup_sent"}
             /\ StatusOf(leads', lead_id) # StatusOf(leads, lead_id)]_vars

\* An opened event has been tracked after the clock moved on, and the lead
\* still carries the time of its send.
C13_Witness ==
  \E lead_id \in Ids :
     /\ resp = Resp("track", lead_id, 200, "opened", "opened")
     /\ StatusOf(leads, lead_id) = "opened"
     /\ DateOf(leads, lead_id) # NoDate
     /\ DateOf(leads, lead_id) < now

\* C18: a lead whose stored status is replied (bounced) is replied
\* (bounced) after any operation run to completion.
C18_Absorbing ==
  [][\A lead_id \in Ids :
       StatusOf(leads, lead_id) \in {"replied", "bounced"} =>
         StatusOf(leads', lead_id) = StatusOf(leads, lead_id)]_vars

\* A bounce was tracked for a lead that had replied; it is still replied.
C18_Witness ==
  \E lead_id \in Ids :
     /\ resp = Resp("track", lead_id, 200, "bounced", "replied")
     /\ StatusOf(leads, lead_id) = "replied"

\* C14: in one run of the job a lead whose processing fails (here: the
\* store refuses its UPDATE) does not stop the others: every other lead that
\* was due at the scan is followup_sent, with the time of the run, when the
\* run ends.
C14_FailureIsolated ==
  [][\A store_errors \in SUBSET Ids :
       automated_followup_check(store_errors) =>
         \A lead_id \in DueIds(leads, now) \ store_errors :
            /\ StatusOf(leads', lead_id) = "followup_sent"
            /\ DateOf(leads', lead_id) = now]_vars

\* The job followed up one lead although the UPDATE of another lead, due in
\* the same run, was refused: that lead had its e-mail and is still waiting.
C14_Witness ==
  \E l1 \in Ids, l2 \in Ids :
     /\ l1 \in swept
     /\ StatusOf(leads, l1) = "followup_sent"
     /\ StatusOf(leads, l2) \in {"sent", "opened"}
     /\ followup_log[l2] >= 1
     /\ DateOf(leads, l2) # NoDate
     /\ DateOf(leads, l1) - DateOf(leads, l2) >= followup_threshold_seconds

\* C16: on the same table at the same time send_followup_internal and
\* send_followup leave the same table, and one simulates its e-mail exactly
\* when the other answers with success, whether the lead is absent or has
\* any status and any sent_date.
C16_InternalSameAsHandler ==
  [][\A lead_id \in Ids :
       send_followup(lead_id) =>
         LET r == send_followup_internal(leads, lead_id, now, FALSE) IN
         /\ leads' = r.rows
         /\ resp'.code = 200 <=> r.emailed
         /\ followup_log' # followup_log <=> r.emailed]_vars

\* The handler has followed up an opened lead and the job another one.
C16_Witness ==
  \E l1 \in Ids, l2 \in Ids :
     /\ resp = Resp("followup", l1, 200, "simulated", "followup_sent")
     /\ StatusOf(leads, l1) = "followup_sent"
     /\ l1 \notin swept
     /\ l2 \in swept
     /\ StatusOf(leads, l2) = "followup_sent"

\* C17 as stated (due means the elapsed time exceeds the threshold): a run
\* of the job leaves status and sent_date of every lead as they were unless
\* the lead is sent or opened, has a sent_date, and more than the threshold
\* has passed since that date.
C17_OnlyDueExceeds ==
  [][\A store_errors \in SUBSET Ids :
       automated_followup_check(store_errors) =>
         \A lead_id \in Ids :
            (/\ Exists(leads, lead_id)
             /\ ~(/\ StatusOf(leads, lead_id) \in {"sent", "opened"}
                  /\ DateOf(leads, lead_id) # NoDate
                  /\ now - DateOf(leads, lead_id) > followup_threshold_seconds))
              => SelectById(leads', lead_id) = SelectById(leads, lead_id)]_vars

\* C17, amended: a run of the job leaves status and sent_date of every lead
\* as they were unless the lead is sent or opened, has a sent_date, and at
\* least the threshold has passed since that date.
C17_OnlyDue ==
  [][\A store_errors \in SUBSET Ids :
       automated_followup_check(store_errors) =>
         \A lead_id \in Ids :
            (/\ Exists(leads, lead_id)
             /\ ~(/\ StatusOf(leads, lead_id) \in {"sent", "opened"}
                  /\ DateOf(leads, lead_id) # NoDate
                  /\ now - DateOf(leads, lead_id) >= followup_threshold_seconds))
              => SelectById(leads', lead_id) = SelectById(leads, lead_id)]_vars

\* The job has run at this time and followed up one lead; another lead, sent
\* to less than the threshold ago, is as the send left it.
C17_Witness ==
  \E l1 \in Ids, l2 \in Ids :
     /\ l1 \in swept
     /\ StatusOf(leads, l1) = "followup_sent"
     /\ DateOf(leads, l1) = now
     /\ StatusOf(leads, l2) = "sent"
     /\ DateOf(leads, l2) # NoDate
     /\ now - DateOf(leads, l2) < followup_threshold_seconds
     /\ followup_log[l2] = 0

\* Rows r1 and r2 agree on every column but status and sent_date.
SameIdentity(r1, r2) ==
  /\ r1.id = r2.id /\ r1.email = r2.email
  /\ r1.company_name = r2.company_name /\ r1.contact_name = r2.contact_name

\* rows2 has the rows of rows1, changed at most in status and sent_date and
\* only where the id is a target.
Frame(rows1, rows2, targets) ==
  /\ Len(rows2) = Len(rows1)
  /\ \A k \in 1..Len(rows1) :
        /\ SameIdentity(rows1[k], rows2[k])
        /\ rows1[k].id \notin targets => rows2[k] = rows1[k]

\* C19: send_outreach, send_followup, track_engagement and a run of the job
\* neither add nor delete a row and change nothing but status and sent_date
\* of the lead they are about (for the job: the leads due at its scan); on an
\* id the table does not hold they answer not found (404) and leave the
\* table as it is.
C19_Frame ==
  [][/\ \A lead_id \in Ids :
          /\ (Answered("send", lead_id) /\ send_outreach(lead_id)) =>
               /\ Frame(leads, leads', {lead_id})
               /\ ~Exists(leads, lead_id) => resp'.code = 404 /\ leads' = leads
          /\ (Answered("followup", lead_id) /\ send_followup(lead_id)) =>
               /\ Frame(leads, leads', {lead_id})
               /\ ~Exists(leads, lead_id) => resp'.code = 404 /\ leads' = leads
          /\ \A action \in Actions :
                (Answered("track", lead_id) /\ track_engagement(lead_id, action)) =>
                  /\ Frame(leads, leads', {lead_id})
                  /\ (action \in valid_actions /\ ~Exists(leads, lead_id)) =>
                       resp'.code = 404 /\ leads' = leads
     /\ \A store_errors \in SUBSET Ids :
          automated_followup_check(store_errors) =>
            Frame(leads, leads', DueIds(leads, now))]_vars

\* A follow-up to one of two leads has been answered; the other lead is as
\* ingestion left it, and the first kept its place, id and e-mail address.
C19_Witness ==
  /\ Len(leads) = 2
  /\ resp = Resp("followup", leads[1].id, 200, "simulated", "followup_sent")
  /\ leads[1].status = "followup_sent"
  /\ leads[1].email # Null
  /\ leads[2].status = "pending"
  /\ leads[2].sent_date = NoDate

\* C15: at no time are two runs of the scheduler job active; a run never
\* starts while another one is still going.
C15_SingleActiveTick ==
  Cardinality({s \in Schedulers : sched[s].pc # "idle"}) <= 1

\* C20: a lead that is sent or opened and has a sent_date eventually is
\* neither sent nor opened, provided time advances and the job keeps being
\* run (within what the bounds let happen: its sent_date leaves the clock
\* room for the threshold and its follow-ups are not used up); and once
\* such a lead is neither, it is never sent, opened or pending again.
C20_EventuallyClosed ==
  /\ \A lead_id \in Ids :
        (/\ StatusOf(leads, lead_id) \in {"sent", "opened"}
         /\ DateOf(leads, lead_id) # NoDate)
          ~> (\/ StatusOf(leads, lead_id) \notin {"sent", "opened"}
              \/ DateOf(leads, lead_id) + followup_threshold_seconds > MaxNow
              \/ followup_log[lead_id] >= MaxFollowups)
  /\ [][\A lead_id \in Ids :
          (/\ Exists(leads, lead_id)
           /\ DateOf(leads, lead_id) # NoDate
           /\ StatusOf(leads, lead_id) \notin {"sent", "opened"}) =>
            StatusOf(leads', lead_id) \notin {"sent", "opened", "pending"}]_vars

====
